---------------------------- MODULE Spec2Model ----------------------------
(***************************************************************************)
(* Event Finder API: the events table, its FTS5 index and triggers          *)
(* (app/core/database.py), the repository functions                        *)
(* (app/repositories/events.py), the pydantic schemas                      *)
(* (app/schemas/event.py) and the request handlers                         *)
(* (app/api/routes/events.py).                                             *)
(*                                                                         *)
(* Text is a sequence of one-character strings.  An Optional value is     *)
(* None (the empty sequence) or Some(v) (the one-element sequence <<v>>).  *)
(* A calendar date is a day number; date.isoformat() is an order-          *)
(* preserving bijection between dates and their stored TEXT form, so the   *)
(* stored column holds the same number.  created_at is the second of the   *)
(* insert.                                                                 *)
(***************************************************************************)
EXTENDS Integers, Sequences, FiniteSets, TLC

VARIABLES
    events,      \* table events: id -> [title, description, location, category, date, created_at]
    events_fts,  \* the FTS5 index: rowid -> [title, description] as indexed
    fts_exists,  \* sqlite_master holds the table events_fts (and its triggers)
    seq,         \* sqlite_sequence of events (AUTOINCREMENT): largest id ever given
    now,         \* the clock, in seconds
    deleted,     \* history: ids whose DELETE request returned 204
    pc,          \* per request thread: where its handler stands and its locals
    found        \* the response to the search request answered last, or None

vars == <<events, events_fts, fts_exists, seq, now, deleted, pc, found>>

---------------------------------------------------------------------------
(* Bounds *)

\* ids the table may hand out before the model stops inserting
MaxId == 2

---------------------------------------------------------------------------
(* Optional values and text *)

None == <<>>

Some(v) == <<v>>

Upper == {"A", "B", "C", "I", "L", "M", "S", "T", "U", "X"}

Letters ==
    Upper \cup {"a", "b", "c", "d", "e", "f", "g", "h", "i", "j", "k", "l", "m", "n",
                "o", "p", "q", "r", "s", "t", "u", "v", "w", "x", "y", "z"}

\* str.lower() on one character
LowerChar(c) ==
    CASE c = "A" -> "a" [] c = "B" -> "b" [] c = "C" -> "c" [] c = "I" -> "i"
      [] c = "L" -> "l" [] c = "M" -> "m" [] c = "S" -> "s" [] c = "T" -> "t"
      [] c = "U" -> "u" [] c = "X" -> "x" [] OTHER -> c

\* str.lower(), SQL LOWER()
Lower(s) == [i \in 1..Len(s) |-> LowerChar(s[i])]

IsSpace(c) == c = " "

RECURSIVE LStrip(_)
LStrip(s) == IF s # <<>> /\ IsSpace(Head(s)) THEN LStrip(Tail(s)) ELSE s

RECURSIVE RStrip(_)
RStrip(s) ==
    IF s # <<>> /\ IsSpace(s[Len(s)]) THEN RStrip(SubSeq(s, 1, Len(s) - 1)) ELSE s

\* str.strip()
Strip(s) == RStrip(LStrip(s))

\* SQL LIKE: % matches any run of characters, _ any one character, letters
\* compare without regard to ASCII case
RECURSIVE Like(_, _)
Like(text, pat) ==
    IF pat = <<>> THEN text = <<>>
    ELSE IF Head(pat) = "%"
         THEN Like(text, Tail(pat)) \/ (text # <<>> /\ Like(Tail(text), pat))
    ELSE IF text = <<>> THEN FALSE
    ELSE /\ (Head(pat) = "_" \/ LowerChar(Head(pat)) = LowerChar(Head(text)))
         /\ Like(Tail(text), Tail(pat))

---------------------------------------------------------------------------
(* Schemas *)

music == <<"m", "u", "s", "i", "c">>

tech == <<"t", "e", "c", "h">>

sports == <<"s", "p", "o", "r", "t", "s">>

arts == <<"a", "r", "t", "s">>

business == <<"b", "u", "s", "i", "n", "e", "s", "s">>

community == <<"c", "o", "m", "m", "u", "n", "i", "t", "y">>

CategoryEnum == {music, tech, sports, arts, business, community}

SortEnum == {"date_asc", "date_desc", "created_desc"}

TextFields == {"title", "location", "description"}

\* a validator that trims the left end only (lstrip for strip)
_strip_text_left(v) == IF v = None THEN v ELSE Some(LStrip(v[1]))

\* field_validator("title", "location", "description", mode="before")
_strip_text(v) == IF v = None THEN v ELSE Some(Strip(v[1]))

\* field_validator("category", mode="before"): CategoryEnum(v.strip().lower())
\* raises ValueError for a string that is no member
_normalize_category(v) ==
    IF v = None THEN [ok |-> TRUE, value |-> v]
    ELSE IF Lower(Strip(v[1])) \in CategoryEnum
         THEN [ok |-> TRUE, value |-> Some(Lower(Strip(v[1])))]
         ELSE [ok |-> FALSE, value |-> v]

\* EventCreate(**payload): title, location, category and date are required
\* (None is refused), description is optional
EventCreate(raw) ==
    LET cat == _normalize_category(raw.category)
    IN  IF raw.title = None \/ raw.location = None \/ raw.category = None
           \/ raw.date = None \/ ~cat.ok
        THEN [ok |-> FALSE, value |-> raw]
        ELSE [ok |-> TRUE,
              value |-> [title       |-> _strip_text(raw.title)[1],
                         description |-> _strip_text(raw.description),
                         location    |-> _strip_text(raw.location)[1],
                         category    |-> cat.value[1],
                         date        |-> raw.date[1]]]

\* EventUpdate(**payload): a function from the fields that were set to their
\* validated values.  The annotation of date is evaluated after the class
\* attribute date = None is bound, so it is Optional[None]: the field
\* accepts None only.
EventUpdate(raw) ==
    LET bad == \/ ("category" \in DOMAIN raw /\ ~_normalize_category(raw["category"]).ok)
               \/ ("date" \in DOMAIN raw /\ raw["date"] # None)
    IN  IF bad THEN [ok |-> FALSE, value |-> raw]
        ELSE [ok |-> TRUE,
              value |-> [f \in DOMAIN raw |->
                            IF f \in TextFields THEN _strip_text(raw[f])
                            ELSE IF f = "category" THEN _normalize_category(raw[f]).value
                            ELSE raw[f]]]

\* updates.model_dump(exclude_unset=True)
model_dump(updates) == updates

---------------------------------------------------------------------------
(* Storage: the table, the FTS5 index and its triggers *)

NoRows == [i \in {} |-> None]

Put(table, id, row) == [i \in DOMAIN table \cup {id} |-> IF i = id THEN row ELSE table[i]]

Drop(table, id) == [i \in DOMAIN table \ {id} |-> table[i]]

FtsEntry(row) == [title |-> row.title, description |-> row.description]

\* trigger events_fts_ai: AFTER INSERT ON events
events_fts_ai(fts, id, new) == Put(fts, id, FtsEntry(new))

\* trigger events_fts_ad: AFTER DELETE ON events, the FTS5 'delete' command
\* removes the entry of old.id indexed with old's values
events_fts_ad(fts, id, old) ==
    IF id \in DOMAIN fts /\ fts[id] = FtsEntry(old) THEN Drop(fts, id) ELSE fts

\* the update trigger without its second statement: the old entry is removed,
\* the new one never indexed
events_fts_au_no_insert(fts, id, old, new) == events_fts_ad(fts, id, old)

\* trigger events_fts_au: AFTER UPDATE ON events, 'delete' of old then insert of new
events_fts_au(fts, id, old, new) == events_fts_ai(events_fts_ad(fts, id, old), id, new)

\* _fts_available(conn)
_fts_available == fts_exists

\* a rowid without AUTOINCREMENT: one more than the largest id now stored
NextRowId_reuse(table, s) ==
    IF DOMAIN table = {} THEN 1
    ELSE 1 + CHOOSE m \in DOMAIN table : \A i \in DOMAIN table : i <= m

\* id INTEGER PRIMARY KEY AUTOINCREMENT: one more than the largest id ever held
NextRowId(table, s) == s + 1

\* row_to_event(row): the stored row with its id
row_to_event(id, row) ==
    [id |-> id, title |-> row.title, description |-> row.description,
     location |-> row.location, category |-> row.category, date |-> row.date,
     created_at |-> row.created_at]

\* get_event(conn, event_id): the record, or None
get_event(table, event_id) ==
    IF event_id \in DOMAIN table THEN Some(row_to_event(event_id, table[event_id])) ELSE None


---------------------------------------------------------------------------
(* Repository writes.  Each is the function up to and including its commit: *)
(* the statement, the triggers it fires and the commit are one step of the  *)
(* storage engine.  kind says how the function goes on: "fetch" (it reads   *)
(* the row again after the commit), "return" or "raise".                    *)

\* an INSERT whose column list leaves out description: the column is NULL
InsertedRow_no_description(data, t) ==
    [title |-> data.title, description |-> None, location |-> data.location,
     category |-> data.category, date |-> data.date, created_at |-> t]

\* INSERT INTO events (title, description, location, category, date):
\* created_at takes its DEFAULT, the second of the insert
InsertedRow(data, t) ==
    [title |-> data.title, description |-> data.description,
     location |-> data.location, category |-> data.category,
     date |-> data.date, created_at |-> t]

\* insert_event(conn, data) to its commit
insert_event(table, fts, s, data, t) ==
    LET id  == NextRowId(table, s)
        row == InsertedRow(data, t)
    IN  [kind |-> "fetch", event_id |-> id, events |-> Put(table, id, row),
         events_fts |-> IF _fts_available THEN events_fts_ai(fts, id, row) ELSE fts]

\* insert_event after its commit: SELECT the row again; row_to_event(None)
\* raises TypeError when the row is gone
insert_event_fetch(table, event_id) ==
    LET got == get_event(table, event_id)
    IN  IF got = None THEN [kind |-> "raise", result |-> None]
        ELSE [kind |-> "return", result |-> got]

\* an update that writes every field of the model, set or not
\* (model_dump without exclude_unset): unset fields become NULL
UpdatedRow_all_fields(row, data) ==
    [title       |-> IF "title" \in DOMAIN data THEN data["title"][1] ELSE row.title,
     description |-> IF "description" \in DOMAIN data THEN data["description"] ELSE None,
     location    |-> IF "location" \in DOMAIN data THEN data["location"][1]
                     ELSE row.location,
     category    |-> IF "category" \in DOMAIN data THEN data["category"][1]
                     ELSE row.category,
     date        |-> IF "date" \in DOMAIN data THEN data["date"][1] ELSE row.date,
     created_at  |-> row.created_at]

\* update_event: the SET list holds exactly the keys of data
UpdatedRow(row, data) ==
    [title       |-> IF "title" \in DOMAIN data THEN data["title"][1] ELSE row.title,
     description |-> IF "description" \in DOMAIN data THEN data["description"]
                     ELSE row.description,
     location    |-> IF "location" \in DOMAIN data THEN data["location"][1]
                     ELSE row.location,
     category    |-> IF "category" \in DOMAIN data THEN data["category"][1]
                     ELSE row.category,
     date        |-> IF "date" \in DOMAIN data THEN data["date"][1] ELSE row.date,
     created_at  |-> row.created_at]

\* title, location, category and date are declared NOT NULL
NotNullViolated(data) ==
    \E f \in {"title", "location", "category", "date"} \cap DOMAIN data : data[f] = None

\* update_event(conn, event_id, updates) to its commit
update_event(table, fts, event_id, updates) ==
    LET data == model_dump(updates)
        same == [events |-> table, events_fts |-> fts]
    IN  IF DOMAIN data = {}
        THEN [kind |-> "return", result |-> get_event(table, event_id)] @@ same
        ELSE IF "date" \in DOMAIN data /\ data["date"] = None
        THEN \* data["date"].isoformat(): AttributeError, before the statement
             [kind |-> "raise", result |-> None] @@ same
        ELSE IF event_id \notin DOMAIN table
        THEN \* rowcount = 0
             [kind |-> "return", result |-> None] @@ same
        ELSE IF NotNullViolated(data)
        THEN \* IntegrityError: the statement is undone, rollback, raise
             [kind |-> "raise", result |-> None] @@ same
        ELSE LET old == table[event_id]
                 new == UpdatedRow(old, data)
             IN  [kind |-> "fetch", result |-> None,
                  events |-> Put(table, event_id, new),
                  events_fts |-> IF _fts_available
                                 THEN events_fts_au(fts, event_id, old, new) ELSE fts]

\* update_event after its commit: SELECT the row again, None when it is gone
update_event_fetch(table, event_id) ==
    [kind |-> "return", result |-> get_event(table, event_id)]

\* delete_event(conn, event_id): True if a row was removed
delete_event(table, fts, event_id) ==
    IF event_id \in DOMAIN table
    THEN [result |-> TRUE, events |-> Drop(table, event_id),
          events_fts |-> IF _fts_available
                         THEN events_fts_ad(fts, event_id, table[event_id]) ELSE fts]
    ELSE [result |-> FALSE, events |-> table, events_fts |-> fts]

---------------------------------------------------------------------------
(* Repository reads: list_events and count_events *)

\* EventQuery(q=..., starts_with=..., ...): the model declares no field
\* starts_with, so the keyword is dropped (pydantic ignores extra input).
\* The annotations of date, start_date and end_date are evaluated after the
\* class attribute date = None is bound: each is Optional[None] and accepts
\* None only, anything else raises ValidationError.
EventQuery(p) ==
    IF p.date # None \/ p.start_date # None \/ p.end_date # None
    THEN [ok |-> FALSE, value |-> p]
    ELSE [ok |-> TRUE,
          value |-> [q |-> p.q, location |-> p.location, date |-> p.date,
                     category |-> p.category, start_date |-> p.start_date,
                     end_date |-> p.end_date, limit |-> p.limit,
                     offset |-> p.offset, sort |-> p.sort]]

\* a character of the class \w (the alphabet of the model has no digits)
IsWord(c) == c \in Letters \/ c = "_"

\* re.findall(r"\w+", text): the maximal runs of word characters, in order
RECURSIVE findall_words(_, _)
findall_words(text, run) ==
    IF text = <<>> THEN (IF run = <<>> THEN <<>> ELSE <<run>>)
    ELSE IF IsWord(Head(text)) THEN findall_words(Tail(text), Append(run, Head(text)))
    ELSE (IF run = <<>> THEN <<>> ELSE <<run>>) \o findall_words(Tail(text), <<>>)

\* " AND ".join(f"{t}*" for t in tokens)
RECURSIVE JoinAnd(_)
JoinAnd(tokens) ==
    IF tokens = <<>> THEN <<>>
    ELSE IF Len(tokens) = 1 THEN Head(tokens) \o <<"*">>
    ELSE Head(tokens) \o <<"*", " ", "A", "N", "D", " ">> \o JoinAnd(Tail(tokens))

\* _to_fts_query(text): "" when the text has no word character
_to_fts_query(text) ==
    LET tokens == findall_words(Lower(text), <<>>)
    IN  IF tokens = <<>> THEN <<>> ELSE JoinAnd(tokens)

\* Python truth of an Optional[str]: neither None nor ""
Truthy(v) == v # None /\ v[1] # <<>>

\* getattr(q, 'starts_with', None)
StartsWithOf(q) == IF "starts_with" \in DOMAIN q THEN q["starts_with"] ELSE None

\* the keyword branch needs the FTS5 statement
UsesFts(q) == Truthy(q.q) /\ _fts_available

\* the WHERE clause of list_events, built the same in count_events
\* (lines 131-159), for the branches that do not use events_fts
WhereClause(row, q) ==
    /\ Truthy(q.q) =>
          \/ Like(row.title, <<"%">> \o q.q[1] \o <<"%">>)
          \/ /\ row.description # None
             /\ Like(row.description[1], <<"%">> \o q.q[1] \o <<"%">>)
    /\ Truthy(StartsWithOf(q)) =>
          Like(Lower(row.title), Lower(StartsWithOf(q)[1]) \o <<"%">>)
    /\ Truthy(q.location) =>
          Like(Lower(row.location), <<"%">> \o Lower(q.location[1]) \o <<"%">>)
    /\ q.category # None => Lower(row.category) = q.category[1]
    /\ q.date # None => row.date = q.date[1]
    /\ q.start_date # None => row.date >= q.start_date[1]
    /\ q.end_date # None => row.date <= q.end_date[1]

\* the orderings with the id ascending in every mode
Before_id_asc(table, a, b, sort) ==
    IF sort = "date_desc"
    THEN table[a].date > table[b].date \/ (table[a].date = table[b].date /\ a < b)
    ELSE IF sort = "created_desc"
    THEN \/ table[a].created_at > table[b].created_at
         \/ (table[a].created_at = table[b].created_at /\ a < b)
    ELSE table[a].date < table[b].date \/ (table[a].date = table[b].date /\ a < b)

\* ORDER BY date DESC, id DESC / created_at DESC, id DESC / date ASC, id ASC
Before(table, a, b, sort) ==
    IF sort = "date_desc"
    THEN table[a].date > table[b].date \/ (table[a].date = table[b].date /\ a > b)
    ELSE IF sort = "created_desc"
    THEN \/ table[a].created_at > table[b].created_at
         \/ (table[a].created_at = table[b].created_at /\ a > b)
    ELSE table[a].date < table[b].date \/ (table[a].date = table[b].date /\ a < b)

RECURSIVE OrderBy(_, _, _)
OrderBy(table, ids, sort) ==
    IF ids = {} THEN <<>>
    ELSE LET first == CHOOSE a \in ids : \A b \in ids \ {a} : Before(table, a, b, sort)
         IN  <<first>> \o OrderBy(table, ids \ {first}, sort)

\* LIMIT ? OFFSET ?
LimitOffset(rows, limit, offset) ==
    SubSeq(rows, offset + 1, IF offset + limit < Len(rows) THEN offset + limit ELSE Len(rows))

\* list_events(conn, q).  With a keyword and the index present the statement
\* is "... JOIN events_fts fts ON fts.rowid = events.id WHERE fts MATCH ?":
\* the column MATCH needs is named after the table, events_fts; the alias
\* fts names no column and SQLite refuses the statement (OperationalError:
\* no such column: fts), whatever the rows and the query text are.
list_events(table, q) ==
    IF UsesFts(q)
    THEN [kind |-> "raise", result |-> <<>>]
    ELSE LET ids  == {i \in DOMAIN table : WhereClause(table[i], q)}
             rows == OrderBy(table, ids, q.sort)
             page == LimitOffset(rows, q.limit, q.offset)
         IN  [kind |-> "return",
              result |-> [k \in 1..Len(page) |-> row_to_event(page[k], table[page[k]])]]

\* count_events(conn, q): the same JOIN and MATCH on the alias
count_events(table, q) ==
    IF UsesFts(q)
    THEN [kind |-> "raise", result |-> 0]
    ELSE [kind |-> "return",
          result |-> Cardinality({i \in DOMAIN table : WhereClause(table[i], q)})]

---------------------------------------------------------------------------
(* Request handlers.  A handler that reads the row again after its commit  *)
(* takes two steps, the commit and the fetch; requests of other threads    *)
(* may fall between them.                                                  *)

Requests == {"r1", "r2"}

Idle == [at |-> "idle", event_id |-> 0, data |-> None]

Fields == {"title", "description", "location", "category", "date"}

MUSIC == <<"M", "U", "S", "I", "C">>

\* POST bodies
RawCreates ==
    [title : {Some(<<"a">>), Some(<<" ", "B", " ">>)},
     description : {None, Some(<<"d", " ">>)},
     location : {Some(<<"x">>)},
     category : {Some(tech), Some(<<"x">>)},
     date : {Some(1)}]

\* PATCH bodies: the fields that are set
RawUpdates ==
    {NoRows}
    \cup {"title" :> v : v \in {None, Some(<<"a">>), Some(<<" ", "B", " ">>)}}
    \cup {"description" :> v : v \in {None, Some(<<"d", " ">>)}}
    \cup {"location" :> v : v \in {None, Some(<<" ", "x">>)}}
    \cup {"category" :> v : v \in {None, Some(MUSIC), Some(<<"x">>)}}
    \cup {"date" :> v : v \in {None, Some(2)}}
    \cup {("title" :> Some(<<" ", "B", " ">>)) @@ ("category" :> Some(MUSIC)),
          ("title" :> Some(<<"a">>)) @@ ("description" :> None),
          ("description" :> Some(<<"d", " ">>)) @@ ("date" :> None),
          ("title" :> None) @@ ("category" :> Some(MUSIC))}

Ids == 1..(MaxId + 1)

\* POST /events/ (status_code=201): EventCreate validation (422), then
\* insert_event up to its commit
create_event(r, raw) ==
    /\ pc[r].at = "idle"
    /\ LET v == EventCreate(raw)
       IN  \/ /\ ~v.ok
              /\ UNCHANGED <<events, events_fts, seq, now, pc>>
           \/ /\ v.ok
              /\ seq < MaxId
              /\ \E t \in {now, now + 1} :
                   LET w == insert_event(events, events_fts, seq, v.value, t)
                   IN  /\ events' = w.events
                       /\ events_fts' = w.events_fts
                       /\ seq' = w.event_id
                       /\ now' = t
                       /\ pc' = [pc EXCEPT ![r] =
                                   [at |-> "insert_fetch", event_id |-> w.event_id,
                                    data |-> Some(v.value)]]
    /\ UNCHANGED <<fts_exists, deleted, found>>

\* POST /events/, from insert_event's commit to the response
create_event_fetch(r) ==
    /\ pc[r].at = "insert_fetch"
    /\ pc' = [pc EXCEPT ![r] = Idle]
    /\ UNCHANGED <<events, events_fts, fts_exists, seq, now, deleted, found>>

\* GET /events/{event_id}: 404 if the event is not found
get_event_by_id(r, event_id) ==
    /\ pc[r].at = "idle"
    /\ UNCHANGED vars

\* PATCH /events/{event_id}: EventUpdate validation (422), then update_event
\* up to its commit
patch_event(r, event_id, raw) ==
    /\ pc[r].at = "idle"
    /\ LET v == EventUpdate(raw)
           w == update_event(events, events_fts, event_id, v.value)
       IN  \/ /\ ~v.ok
              /\ UNCHANGED <<events, events_fts, pc>>
           \/ /\ v.ok
              /\ w.kind # "fetch"
              /\ UNCHANGED <<events, events_fts, pc>>
           \/ /\ v.ok
              /\ w.kind = "fetch"
              /\ events' = w.events
              /\ events_fts' = w.events_fts
              /\ pc' = [pc EXCEPT ![r] = [at |-> "update_fetch", event_id |-> event_id,
                                          data |-> Some(v.value)]]
    /\ UNCHANGED <<fts_exists, seq, now, deleted, found>>

\* PATCH /events/{event_id}, from update_event's commit to the response
patch_event_fetch(r) ==
    /\ pc[r].at = "update_fetch"
    /\ pc' = [pc EXCEPT ![r] = Idle]
    /\ UNCHANGED <<events, events_fts, fts_exists, seq, now, deleted, found>>

\* DELETE /events/{event_id} (status_code=204): 404 if delete_event returns False
delete_event_by_id(r, event_id) ==
    /\ pc[r].at = "idle"
    /\ LET w == delete_event(events, events_fts, event_id)
       IN  /\ events' = w.events
           /\ events_fts' = w.events_fts
           /\ deleted' = IF w.result THEN deleted \cup {event_id} ELSE deleted
    /\ UNCHANGED <<fts_exists, seq, now, pc, found>>

\* GET /events/: the Query(...) declarations (422), EventQuery (a
\* ValidationError is an unhandled exception), count_events for the
\* X-Total-Count header, then list_events
SearchResponse(table, p) ==
    LET valid == /\ p.starts_with # None =>
                      Len(p.starts_with[1]) = 1 /\ p.starts_with[1][1] \in Letters
                 /\ p.category # None => p.category[1] \in CategoryEnum
                 /\ p.limit >= 1 /\ p.limit <= 100
                 /\ p.offset >= 0
                 /\ p.sort \in SortEnum
        parsed == EventQuery(p)
        total  == count_events(table, parsed.value)
        page   == list_events(table, parsed.value)
    IN  IF ~valid THEN [status |-> 422, total |-> None, items |-> <<>>]
        ELSE IF ~parsed.ok \/ total.kind = "raise" \/ page.kind = "raise"
        THEN [status |-> 500, total |-> None, items |-> <<>>]
        ELSE [status |-> 200, total |-> Some(total.result), items |-> page.result]

search_events(p) ==
    /\ found = None
    /\ found' = Some([params |-> p] @@ SearchResponse(events, p))
    /\ UNCHANGED <<events, events_fts, fts_exists, seq, now, deleted, pc>>

---------------------------------------------------------------------------
(* The service: init_db on a new file, then requests *)

\* init_db() on an absent file: _create_schema creates the empty table and,
\* when the SQLite build has FTS5, events_fts and its triggers
Init ==
    /\ events = NoRows
    /\ events_fts = NoRows
    /\ fts_exists \in BOOLEAN
    /\ seq = 0
    /\ now = 0
    /\ deleted = {}
    /\ pc = [r \in Requests |-> Idle]
    /\ found = None

AllIdle == \A r \in Requests : pc[r].at = "idle"

\* requests served one at a time: each handler runs to its response before
\* the next request starts
Next ==
    \/ AllIdle /\ \E raw \in RawCreates : create_event("r1", raw)
    \/ create_event_fetch("r1")
    \/ AllIdle /\ \E id \in Ids : get_event_by_id("r1", id)
    \/ AllIdle /\ \E id \in Ids, raw \in RawUpdates : patch_event("r1", id, raw)
    \/ patch_event_fetch("r1")
    \/ AllIdle /\ \E id \in Ids : delete_event_by_id("r1", id)

Spec == Init /\ [][Next]_vars

\* requests served by two threads, their steps interleaved
NextConcurrent ==
    \/ \E r \in Requests, raw \in RawCreates : create_event(r, raw)
    \/ \E r \in Requests : create_event_fetch(r)
    \/ \E r \in Requests, id \in Ids : get_event_by_id(r, id)
    \/ \E r \in Requests, id \in Ids, raw \in RawUpdates : patch_event(r, id, raw)
    \/ \E r \in Requests : patch_event_fetch(r)
    \/ \E r \in Requests, id \in Ids : delete_event_by_id(r, id)

SpecConcurrent == Init /\ [][NextConcurrent]_vars

---------------------------------------------------------------------------
(* Requests whose text fields are blank or empty *)

BlankCreates ==
    [title : {Some(<<"a">>), Some(<<" ">>)}, description : {None, Some(<<" ">>)},
     location : {Some(<<"x">>), Some(<<>>)}, category : {Some(tech), Some(<<"x">>)},
     date : {Some(1)}]

BlankUpdates ==
    {NoRows, "title" :> Some(<<" ", " ">>), "title" :> Some(<<"b">>),
     "location" :> Some(<<>>), "category" :> Some(<<"x">>)}

NextBlank ==
    \/ AllIdle /\ \E raw \in BlankCreates : create_event("r1", raw)
    \/ create_event_fetch("r1")
    \/ AllIdle /\ \E id \in Ids : get_event_by_id("r1", id)
    \/ AllIdle /\ \E id \in Ids, raw \in BlankUpdates : patch_event("r1", id, raw)
    \/ patch_event_fetch("r1")
    \/ AllIdle /\ \E id \in Ids : delete_event_by_id("r1", id)

SpecBlank == Init /\ [][NextBlank]_vars

---------------------------------------------------------------------------
(* A db_session block of several repository writes, as in scripts/seed.py *)

\* conn.rollback(): the tables go back to what the connection committed last
rollback(committed, pending) == committed

\* with db_session() as conn: the connection is opened; start is what the
\* tables hold when the block is entered, committed what the connection has
\* committed since
db_session(r) ==
    /\ pc[r].at = "idle"
    /\ pc' = [pc EXCEPT ![r] =
                [at |-> "session", event_id |-> 0,
                 data |-> Some([start     |-> [events |-> events, events_fts |-> events_fts],
                                committed |-> [events |-> events, events_fts |-> events_fts]])]]
    /\ UNCHANGED <<events, events_fts, fts_exists, seq, now, deleted, found>>

\* insert_event(conn, s) inside the block: INSERT, conn.commit() (line 62),
\* then the row is read back
session_insert(r, raw) ==
    /\ pc[r].at = "session"
    /\ EventCreate(raw).ok
    /\ seq < MaxId
    /\ \E t \in {now, now + 1} :
         LET w == insert_event(events, events_fts, seq, EventCreate(raw).value, t)
         IN  /\ events' = w.events
             /\ events_fts' = w.events_fts
             /\ seq' = w.event_id
             /\ now' = t
             /\ pc' = [pc EXCEPT ![r] =
                         [at |-> "session", event_id |-> w.event_id,
                          data |-> Some([start     |-> pc[r].data[1].start,
                                         committed |-> [events |-> w.events,
                                                        events_fts |-> w.events_fts]])]]
    /\ UNCHANGED <<fts_exists, deleted, found>>

\* a step of the block raises: except Exception: conn.rollback(); raise
session_raise(r) ==
    /\ pc[r].at = "session"
    /\ LET back == rollback(pc[r].data[1].committed,
                            [events |-> events, events_fts |-> events_fts])
       IN  /\ events' = back.events
           /\ events_fts' = back.events_fts
    /\ pc' = [pc EXCEPT ![r] = [at |-> "rolled_back", event_id |-> pc[r].event_id,
                                data |-> pc[r].data]]
    /\ UNCHANGED <<fts_exists, seq, now, deleted, found>>

\* the block ends normally: conn.commit()
session_commit(r) ==
    /\ pc[r].at = "session"
    /\ pc' = [pc EXCEPT ![r] = Idle]
    /\ UNCHANGED <<events, events_fts, fts_exists, seq, now, deleted, found>>

\* finally: conn.close(), the exception leaves the block
session_close(r) ==
    /\ pc[r].at = "rolled_back"
    /\ pc' = [pc EXCEPT ![r] = Idle]
    /\ UNCHANGED <<events, events_fts, fts_exists, seq, now, deleted, found>>

NextSession ==
    \/ db_session("r1")
    \/ \E raw \in RawCreates : session_insert("r1", raw)
    \/ session_raise("r1")
    \/ session_commit("r1")
    \/ session_close("r1")

SpecSession == Init /\ [][NextSession]_vars

---------------------------------------------------------------------------
(* Restarts: init_db on the file the service has already written *)

\* _ensure_fts5(conn) where fts5 tells whether the SQLite build has the
\* module: CREATE VIRTUAL TABLE IF NOT EXISTS creates events_fts when it is
\* missing, as an external-content index, which starts with no entry whatever
\* rows events holds; without the module the OperationalError is swallowed
_ensure_fts5(exists, fts, fts5) ==
    IF exists THEN [fts_exists |-> TRUE, events_fts |-> fts]
    ELSE IF fts5 THEN [fts_exists |-> TRUE, events_fts |-> NoRows]
    ELSE [fts_exists |-> FALSE, events_fts |-> fts]

\* init_db() on an existing, sound file: CREATE TABLE IF NOT EXISTS keeps the
\* rows, then _ensure_fts5.  A file that holds events_fts is opened by a
\* build that has the module.
init_db(fts5) ==
    /\ fts_exists => fts5
    /\ LET e == _ensure_fts5(fts_exists, events_fts, fts5)
       IN  /\ fts_exists' = e.fts_exists
           /\ events_fts' = e.events_fts
    /\ UNCHANGED <<events, seq, now, deleted, pc, found>>

\* the service restarted between requests, on whatever build is installed
NextRestart ==
    \/ Next
    \/ AllIdle /\ \E fts5 \in BOOLEAN : init_db(fts5)

SpecRestart == Init /\ [][NextRestart]_vars

---------------------------------------------------------------------------
(* Searches: a table as requests leave it, then one search request *)

\* rows as create and update store them
SearchRows ==
    {[title |-> <<"L", "a">>, description |-> None, location |-> <<"x">>,
      category |-> music, date |-> 1, created_at |-> c] : c \in {0, 1}}
    \cup {[title |-> <<"l", "b">>, description |-> Some(<<"a", "l">>),
           location |-> <<"X", "y">>, category |-> tech, date |-> 1, created_at |-> c] :
          c \in {0, 1}}
    \cup {[title |-> <<"t">>, description |-> None, location |-> <<"x">>,
           category |-> music, date |-> 2, created_at |-> c] : c \in {0, 1}}

\* tables of at most MaxId events; ids are given in the order of the inserts,
\* so created_at does not decrease with the id
SearchTables ==
    UNION {{t \in [D -> SearchRows] :
              \A a \in D, b \in D : a < b => t[a].created_at <= t[b].created_at} :
           D \in SUBSET (1..MaxId)}

DateFilters ==
    {[date |-> None, start_date |-> None, end_date |-> None],
     [date |-> Some(1), start_date |-> None, end_date |-> None],
     [date |-> None, start_date |-> Some(2), end_date |-> Some(2)]}

\* query strings of GET /events/
SearchParams ==
    {[q |-> q, starts_with |-> sw, location |-> loc, category |-> cat,
      date |-> d.date, start_date |-> d.start_date, end_date |-> d.end_date,
      limit |-> lim, offset |-> off, sort |-> srt] :
        q \in {None, Some(<<"l">>)}, sw \in {None, Some(<<"L">>)},
        loc \in {None, Some(<<"X">>)}, cat \in {None, Some(music), Some(MUSIC)},
        d \in DateFilters, lim \in {1, 2}, off \in {0, 1}, srt \in SortEnum}

InitSearch ==
    /\ events \in SearchTables
    /\ fts_exists \in BOOLEAN
    /\ events_fts = IF fts_exists THEN [i \in DOMAIN events |-> FtsEntry(events[i])]
                    ELSE NoRows
    /\ seq = MaxId
    /\ now = 1
    /\ deleted = {}
    /\ pc = [r \in Requests |-> Idle]
    /\ found = None

NextSearch == \E p \in SearchParams : search_events(p)

SpecSearch == InitSearch /\ [][NextSearch]_vars

\* keyword and location searches, every event on one page
KeywordParams ==
    {[q |-> q, starts_with |-> None, location |-> loc, category |-> None,
      date |-> None, start_date |-> None, end_date |-> None,
      limit |-> 100, offset |-> 0, sort |-> srt] :
        q \in {None, Some(<<"l">>), Some(<<"A", " ", "l">>), Some(<<"_">>), Some(<<"!">>)},
        loc \in {None, Some(<<"X">>), Some(<<"%">>), Some(<<"_", "y">>)},
        srt \in {"date_asc", "created_desc"}}

NextKeyword == \E p \in KeywordParams : search_events(p)

SpecKeyword == InitSearch /\ [][NextKeyword]_vars

---------------------------------------------------------------------------
(* Properties *)

ValidUpdates == {raw \in RawUpdates : EventUpdate(raw).ok}

PageAt(p, k) == SearchResponse(events, [p EXCEPT !.offset = k * p.limit])

\* C2: for every filter set, the count equals the number of distinct events
\* met by listing with the same filters page after page until an empty page;
\* each matching event is on exactly one page, no other event on any page.
C2_CountEqualsPagedList ==
    (found # None /\ found[1].status # 422) =>
        LET p     == found[1].params
            pages == [k \in 0..MaxId |-> PageAt(p, k)]
            slots == {<<k, j>> \in (0..MaxId) \X (1..MaxId) : j <= Len(pages[k].items)}
            ids   == {pages[k[1]].items[k[2]].id : k \in slots}
        IN  /\ found[1].status = 200
            /\ \A k \in 0..MaxId : pages[k].status = 200
            /\ found[1].total = Some(Cardinality(slots))
            /\ Cardinality(ids) = Cardinality(slots)
            /\ ids = {i \in DOMAIN events : WhereClause(events[i], EventQuery(p).value)}

\* the order the claim names, on two returned records
ClaimedOrder(a, b, sort) ==
    CASE sort = "date_asc" -> a.date < b.date \/ (a.date = b.date /\ a.id < b.id)
      [] sort = "date_desc" -> a.date > b.date \/ (a.date = b.date /\ a.id > b.id)
      [] sort = "created_desc" ->
            \/ a.created_at > b.created_at
            \/ (a.created_at = b.created_at /\ a.id > b.id)

\* C3: the records of a result are in the strict total order of the sort mode:
\* date_asc by (date, id) ascending, date_desc by (date, id) descending,
\* created_desc by (created_at, id) descending; ties in date or created_at are
\* broken by the id, so the sequence is determined by the table and the query.
C3_ResultIsStrictlyOrdered ==
    (found # None /\ found[1].status = 200) =>
        LET items == found[1].items
        IN  /\ \A i \in DOMAIN items, j \in DOMAIN items :
                  i < j => ClaimedOrder(items[i], items[j], found[1].params.sort)
            /\ items = list_events(events, EventQuery(found[1].params).value).result

\* a descending result of two events that share date and created_at
C3_Witness ==
    /\ found # None
    /\ found[1].status = 200
    /\ found[1].params.sort \in {"date_desc", "created_desc"}
    /\ Len(found[1].items) = 2
    /\ found[1].items[1].date = found[1].items[2].date
    /\ found[1].items[1].created_at = found[1].items[2].created_at

\* C4: a create whose insert succeeded returns the record it persisted, with
\* the id assigned to it, whatever other requests do between its commit and
\* its re-read of the row: it neither fails nor returns their changes.
C4_CreateReturnsOwnRecord ==
    \A r \in Requests :
        pc[r].at = "insert_fetch" =>
            LET f == insert_event_fetch(events, pc[r].event_id)
                d == pc[r].data[1]
            IN  /\ f.kind = "return"
                /\ f.result[1].id = pc[r].event_id
                /\ f.result[1].title = d.title
                /\ f.result[1].description = d.description
                /\ f.result[1].location = d.location
                /\ f.result[1].category = d.category
                /\ f.result[1].date = d.date

\* C5: an operation that ends by raising has committed no write: a raising
\* update leaves the table and the index as they were, and no handler raises
\* after its write statement was committed.
C5_FailedWriteIsNotCommitted ==
    /\ \A id \in Ids, raw \in ValidUpdates :
          LET w == update_event(events, events_fts, id, EventUpdate(raw).value)
          IN  w.kind = "raise" => (w.events = events /\ w.events_fts = events_fts)
    /\ \A r \in Requests :
          pc[r].at = "insert_fetch" =>
              insert_event_fetch(events, pc[r].event_id).kind # "raise"

\* the stored column of a field against the value the payload gives it
ColumnHolds(row, f, v) ==
    CASE f = "title" -> v # None /\ row.title = v[1]
      [] f = "description" -> row.description = v
      [] f = "location" -> v # None /\ row.location = v[1]
      [] f = "category" -> v # None /\ row.category = v[1]
      [] f = "date" -> v # None /\ row.date = v[1]

ColumnSame(old, new, f) ==
    CASE f = "title" -> new.title = old.title
      [] f = "description" -> new.description = old.description
      [] f = "location" -> new.location = old.location
      [] f = "category" -> new.category = old.category
      [] f = "date" -> new.date = old.date

DeletedQueries ==
    {[q |-> q, location |-> None, date |-> None, category |-> cat,
      start_date |-> None, end_date |-> None, limit |-> MaxId + 1, offset |-> 0,
      sort |-> srt] :
        q \in {None, Some(<<"a">>)}, cat \in {None, Some(tech)}, srt \in SortEnum}

\* C7: once DELETE of an id has returned success, get-by-id of it finds
\* nothing, no list result holds it and no count counts it, for every filter
\* set, whatever creates, updates and deletes follow.
C7_DeletedStaysGone ==
    \A x \in deleted :
        /\ get_event(events, x) = None
        /\ \A q \in DeletedQueries :
              LET l == list_events(events, q)
                  c == count_events(events, q)
              IN  /\ l.kind = "return" => \A k \in DOMAIN l.result : l.result[k].id # x
                  /\ c.kind = "return" =>
                        c.result = Cardinality({i \in DOMAIN events \ {x} :
                                                  WhereClause(events[i], q)})

\* an id was deleted and a later create has stored an event that a list returns
C7_Witness ==
    /\ ~fts_exists
    /\ \E x \in deleted : \E i \in DOMAIN events : i > x
    /\ \E q \in DeletedQueries : Truthy(q.q) /\ list_events(events, q).result # <<>>

\* C8: for an id that is not stored, update with any payload and delete both
\* return not-found, raise nothing and leave the table and the index as they are.
C8_MissingIdIsNotFound ==
    \A id \in Ids \ DOMAIN events :
        /\ \A raw \in ValidUpdates :
              LET w == update_event(events, events_fts, id, EventUpdate(raw).value)
              IN  /\ w.kind = "return" /\ w.result = None
                  /\ w.events = events /\ w.events_fts = events_fts
        /\ LET w == delete_event(events, events_fts, id)
           IN  ~w.result /\ w.events = events /\ w.events_fts = events_fts

\* C9: a search with starts_with = L returns exactly the events, among those
\* matching the other filters, whose title begins with L without regard to case.
C9_StartsWithRestrictsResult ==
    (found # None /\ found[1].status = 200 /\ found[1].params.starts_with # None) =>
        \A k \in DOMAIN found[1].items :
            LowerChar(found[1].items[k].title[1])
                = LowerChar(found[1].params.starts_with[1][1])

\* C10: a search whose category is given in another letter case ("MUSIC") is
\* accepted and returns what the search with the lowercase category returns.
C10_CategoryFilterAnyCase ==
    (/\ found # None
     /\ found[1].params.category = Some(MUSIC)
     /\ found[1].params.q = None
     /\ found[1].params.date = None /\ found[1].params.start_date = None) =>
        LET lower == SearchResponse(events, [found[1].params EXCEPT !.category = Some(music)])
        IN  /\ found[1].status = 200
            /\ found[1].items = lower.items
            /\ found[1].total = lower.total

\* text holds s as a literal substring
Contains(text, s) ==
    \E k \in 0..(Len(text) - Len(s)) : SubSeq(text, k + 1, k + Len(s)) = s

IsPrefix(t, w) == Len(t) <= Len(w) /\ SubSeq(w, 1, Len(t)) = t

ItemIds(items) == {items[k].id : k \in DOMAIN items}

\* the lowercased words of an event's title and description
WordsOf(row) ==
    LET tw == findall_words(Lower(row.title), <<>>)
        dw == IF row.description = None THEN <<>>
              ELSE findall_words(Lower(row.description[1]), <<>>)
    IN  {tw[k] : k \in DOMAIN tw} \cup {dw[k] : k \in DOMAIN dw}

\* C11: with a keyword and the full-text index present, the search returns a
\* result, not an error; the query built from a non-empty keyword is not
\* empty; the events returned are those, among the ones matching the other
\* filters, where every word of the lowercased keyword is a prefix of a word
\* of the title or the description.
C11_KeywordSearchThroughIndex ==
    (found # None /\ Truthy(found[1].params.q) /\ fts_exists) =>
        LET p      == found[1].params
            tokens == findall_words(Lower(p.q[1]), <<>>)
            rest   == [EventQuery(p).value EXCEPT !.q = None]
        IN  /\ _to_fts_query(p.q[1]) # <<>>
            /\ found[1].status = 200
            /\ ItemIds(found[1].items) =
                  {i \in DOMAIN events :
                      /\ WhereClause(events[i], rest)
                      /\ \A k \in DOMAIN tokens :
                            \E w \in WordsOf(events[i]) : IsPrefix(tokens[k], w)}

\* C12: without a full-text index, a keyword search returns exactly the
\* events whose title or description holds the keyword as a substring, letter
\* case ignored; an event without description is matched on its title.
C12_FallbackIsSubstringMatch ==
    (/\ found # None
     /\ Truthy(found[1].params.q)
     /\ ~fts_exists
     /\ found[1].params.location = None) =>
        LET kw      == Lower(found[1].params.q[1])
            holding == {i \in DOMAIN events :
                          \/ Contains(Lower(events[i].title), kw)
                          \/ /\ events[i].description # None
                             /\ Contains(Lower(events[i].description[1]), kw)}
        IN  /\ found[1].status = 200
            /\ ItemIds(found[1].items) = holding
            /\ found[1].total = Some(Cardinality(holding))

\* C13: a location filter s selects exactly the events whose lowercased
\* location holds lowercased s as a literal substring, also when s holds the
\* characters % or _; list and count agree on them.
C13_LocationIsLiteralSubstring ==
    (/\ found # None
     /\ Truthy(found[1].params.location)
     /\ found[1].params.q = None) =>
        LET s       == Lower(found[1].params.location[1])
            holding == {i \in DOMAIN events : Contains(Lower(events[i].location), s)}
        IN  /\ found[1].status = 200
            /\ ItemIds(found[1].items) = holding
            /\ found[1].total = Some(Cardinality(holding))

\* C14: a storage instance set up without the full-text index keeps using
\* the substring fallback: no later step, a re-initialisation included, makes
\* the keyword searches go to a full-text index.
C14_FallbackIsPermanent == [][~fts_exists => ~fts_exists']_vars

\* C15: after any creates and partial updates whose payloads passed
\* EventCreate / EventUpdate, every stored event has a title and a location
\* that are not empty.
C15_TitleAndLocationNonEmpty ==
    \A i \in DOMAIN events : events[i].title # <<>> /\ events[i].location # <<>>

NoOuterSpace(s) == s = <<>> \/ (~IsSpace(s[1]) /\ ~IsSpace(s[Len(s)]))

\* C16: every stored event's category is one of music, tech, sports, arts,
\* business, community in lowercase, and its title, its location and its
\* description, when it has one, neither begin nor end with whitespace,
\* whatever case and surrounding whitespace the requests submitted.
C16_StoredValuesNormalised ==
    \A i \in DOMAIN events :
        /\ events[i].category \in
              {music, tech, sports, arts, business, community}
        /\ NoOuterSpace(events[i].title)
        /\ NoOuterSpace(events[i].location)
        /\ events[i].description # None => NoOuterSpace(events[i].description[1])

\* an event created from " B " and "d " and moved to "MUSIC" by an update
C16_Witness ==
    \E i \in DOMAIN events :
        /\ events[i].title = <<"B">>
        /\ events[i].description = Some(<<"d">>)
        /\ events[i].category = music

\* C17: for every valid create payload the record create returns equals the
\* record a get-by-id of its id returns right after; title, description,
\* location, category and date are the submitted values trimmed and
\* lowercased; the id is positive and no other stored event has it.
C17_CreateThenGetAgree ==
    /\ AllIdle =>
         \A raw \in RawCreates, t \in {now, now + 1} :
            EventCreate(raw).ok =>
               LET w    == insert_event(events, events_fts, seq, EventCreate(raw).value, t)
                   made == insert_event_fetch(w.events, w.event_id)
                   got  == get_event(w.events, w.event_id)
               IN  /\ made.kind = "return"
                   /\ got # None
                   /\ made.result = got
                   /\ got[1].id = w.event_id
                   /\ got[1].id > 0
                   /\ got[1].id \notin DOMAIN events
                   /\ got[1].title = Strip(raw.title[1])
                   /\ got[1].location = Strip(raw.location[1])
                   /\ got[1].description =
                         (IF raw.description = None THEN None
                          ELSE Some(Strip(raw.description[1])))
                   /\ got[1].category = Lower(Strip(raw.category[1]))
                   /\ got[1].date = raw.date[1]
                   /\ \A i \in DOMAIN events : w.events[i] = events[i]
    /\ (pc["r1"].at = "insert_fetch" /\ pc["r2"].at = "idle") =>
          LET made == insert_event_fetch(events, pc["r1"].event_id)
          IN  /\ made.kind = "return"
              /\ made.result = get_event(events, pc["r1"].event_id)
              /\ made.result[1].title = pc["r1"].data[1].title
              /\ made.result[1].description = pc["r1"].data[1].description

\* a second event was inserted from " B " and "d " and is about to be re-read
C17_Witness ==
    /\ pc["r1"].at = "insert_fetch"
    /\ pc["r1"].event_id = 2
    /\ Cardinality(DOMAIN events) = 2
    /\ events[2].title = <<"B">>
    /\ events[2].description = Some(<<"d">>)

\* C18: when a step of a db_session block raises, the block's rollback
\* leaves the table and the index as they were when the block was entered:
\* none of the writes the block made before remains.
C18_FailedBlockLeavesNothing ==
    \A r \in Requests :
        pc[r].at = "rolled_back" =>
            /\ events = pc[r].data[1].start.events
            /\ events_fts = pc[r].data[1].start.events_fts

=============================================================================
